---- MODULE Spec2Model ----
(***************************************************************************)
(* State-machine model of esp32_soil_moisture_control.ino: one wake cycle  *)
(* of setup() (sense, pump, WiFi, NTP, Firebase push, daily firmware       *)
(* check, sleep scheduling, deep sleep), repeated across deep sleeps.      *)
(***************************************************************************)
EXTENDS Integers, Sequences, FiniteSets, TLC

VARIABLES
    DEBUG_LOG,        \* build flag of lines 52-53 (#ifdef DEBUG_LOG branches)
    wakeup_reason,    \* esp_sleep_get_wakeup_cause(): "timer" or "undefined"
    pc,               \* position of the control flow inside setup()
    timeinfo,         \* RTC_DATA_ATTR struct tm (tm_hour, tm_min, tm_mday)
    rtc_valid,        \* RTC_DATA_ATTR bool
    previousDay,      \* RTC_DATA_ATTR int
    moistureValue,    \* int, RAM
    pumpOnSeconds,    \* int, RAM
    updateSuccess,    \* bool, RAM
    timeToSleepSecs,  \* int, RAM
    gpio,             \* output level driven on each pin (TRUE = HIGH)
    gpioHold,         \* pins whose pad is isolated/held by the RTC
    wifiConnected,    \* WiFi.status() == WL_CONNECTED
    prefsOpen,        \* preferences handle is open
    sleepTimer,       \* seconds handed to esp_sleep_enable_timer_wakeup (0 = not armed)
    firstReading,     \* history: the initial analogRead of this cycle (-1 = none yet)
    pumpWasOn,        \* history: pumpPin was driven HIGH in this cycle
    syncOk,           \* history: getLocalTime succeeded in this cycle
    dailyRan,         \* history: the once-a-day block was entered in this cycle
    otaCalled,        \* history: check_firmware_update was called in this cycle
    pushed,           \* history: outcome and payload of this cycle's pushJSON
    scheduled,        \* history: the branch of the sleep computation this cycle took
    lastCycle,        \* history: what the previous cycle (before the deep sleep) did
    localCfg,         \* Preferences namespace "device_info": moist_dry, moist_wet, wake_period
    remoteCfg,        \* RTDB values of the three tunables (Absent = no such path)
                      \* and of "update"
    firstBoot,        \* history: this execution is the first one after flashing
    wifiTried,        \* history: outcome of the WiFi.status() test of line 213
    signIns,          \* history: number of calls of Fb_init in this cycle
    fbReady,          \* history: Fb_init() == true && Firebase.ready() of this cycle
    otaExit,          \* history: the place where check_firmware_update was left
    otaResp,          \* history: the answers check_firmware_update got (the version
                      \* string only, when the function returned)
    versionOp,        \* history: what lines 254-262 did to the version path
    pumpPolls,        \* history: number of analogRead calls of the pump loop in this cycle
    ranToday,         \* history: the once-a-day block was entered, and no successful
                      \* getLocalTime has since reported a day of month other than
                      \* the one the block stored in previousDay
    versionRead       \* history: what the getString of line 256 returned ("failed",
                      \* "same" or "other"), until the network is released

vars == << DEBUG_LOG, wakeup_reason, pc, timeinfo, rtc_valid, previousDay,
           moistureValue, pumpOnSeconds, updateSuccess, timeToSleepSecs,
           gpio, gpioHold, wifiConnected, prefsOpen, sleepTimer,
           firstReading, pumpWasOn, syncOk, dailyRan, otaCalled, pushed,
           scheduled, lastCycle, localCfg, remoteCfg, firstBoot, wifiTried,
           signIns, fbReady, otaExit, otaResp, versionOp,
           pumpPolls, ranToday, versionRead >>

rtcVars  == << timeinfo, rtc_valid, previousDay >>
ramVars  == << moistureValue, pumpOnSeconds, updateSuccess, timeToSleepSecs >>
pinVars  == << gpio, gpioHold >>
netVars  == << wifiConnected, prefsOpen >>
histVars == << firstReading, pumpWasOn, syncOk, dailyRan, otaCalled, pushed,
               scheduled, lastCycle >>
cfgVars  == << localCfg, remoteCfg >>
syncHist == << wifiTried, signIns, fbReady, otaExit, otaResp, versionOp >>
auxHist  == << pumpPolls, ranToday, versionRead >>

(***************************************************************************)
(* Program constants                                                       *)
(***************************************************************************)
MAJOR_VERSION == 0
MINOR_VERSION == 0
MICRO_VERSION == 0
TIME_TO_SLEEP == 20 * 60
ADC_DRY_VALUE == 5500
ADC_WET_VALUE == 4000
PUMP_ON_SECONDS_MAX == 3 * 60
moisturePowerPin == 9
pumpPin == 5
HIGH == TRUE
LOW == FALSE
WIFI_RETRY_CNT == 100
RETRY_SLEEP_SECS == 60
DEBUG_SLEEP_SECS == 5

(***************************************************************************)
(* Bounds of the environment                                               *)
(***************************************************************************)
MaxDay == 2          \* days of month the time source reports: 1..MaxDay
MaxEarlyWet == 2     \* the sensor may first report wet on polls 1..MaxEarlyWet ...

\* ... and on these later polls (12 is the spec's scenario; the last two are the
\* polls around the timeout)
WetPolls == (1 .. MaxEarlyWet) \cup {12, PUMP_ON_SECONDS_MAX - 1, PUMP_ON_SECONDS_MAX}

\* ADC values around both thresholds
Readings == {ADC_WET_VALUE, ADC_WET_VALUE + 1, ADC_DRY_VALUE, ADC_DRY_VALUE + 1}

Days == 1 .. MaxDay
Hours == {3, 12, 20, 22}
\* one minute of the hour in the full cycle model; the schedule model takes all sixty
Minutes == {15}
AllHours == 0 .. 23
AllMinutes == 0 .. 59

Tm(h, m, d) == [tm_hour |-> h, tm_min |-> m, tm_mday |-> d]

\* what the time source can report in the full cycle model
TimeSamples == { Tm(h, m, d) : h \in Hours, m \in Minutes, d \in Days }

\* zero-initialised struct tm in RTC memory
ZeroTm == Tm(0, 0, 0)

\* local time of a clock that was never set: 1 January 1970, 08:00 at the
\* gmtOffset_sec of line 81
UnsetClockTm == Tm(8, 0, 1)

\* what timeinfo may hold after a getLocalTime that failed: the call gets the
\* address of timeinfo, so it may leave it as it was or have written the time
\* of the clock it found not set, which starts at UnsetClockTm and counts on
\* from there through every hour and day
FailedSyncSamples(old) == {old, UnsetClockTm} \cup TimeSamples

NoPush == [st |-> "none", moisture |-> 0, pump_on_seconds |-> 0]
NoCycle == [daily |-> FALSE, day |-> 0]

\* check_firmware_update was not called: no answer was received
NoOta == [ gotLatest |-> FALSE, fwversion |-> << "0", ".", "0", ".", "0" >>,
           gotUrl |-> FALSE, httpOk |-> FALSE, contentLen |-> 0, canBegin |-> FALSE,
           written |-> 0, endOk |-> FALSE, finished |-> FALSE ]

(***************************************************************************)
(* The three tunables: the values the provisioning sketch of the README    *)
(* stores in the Preferences namespace, and what the RTDB may hold for them *)
(* together with the boolean "update" the user sets after adjusting them   *)
(***************************************************************************)
Absent == -1
TunableDelta == 100   \* how far an adjusted remote value is from the local one

\* (the provisioning sketch has its own ADC_DRY_VALUE 3100 and ADC_WET_VALUE 2850)
ProvisionedCfg ==
    [moist_dry |-> 3100, moist_wet |-> 2850, wake_period |-> 10 * 60]

RemoteChoices(local) == {Absent, local, local + TunableDelta}

RemoteCfgs ==
    [ moist_dry : RemoteChoices(ProvisionedCfg.moist_dry),
      moist_wet : RemoteChoices(ProvisionedCfg.moist_wet),
      wake_period : RemoteChoices(ProvisionedCfg.wake_period),
      update : BOOLEAN ]

\* a database in which none of the three paths was created
NoRemoteCfg ==
    [moist_dry |-> Absent, moist_wet |-> Absent, wake_period |-> Absent, update |-> FALSE]


(***************************************************************************)
(* Initial state: power-on, RTC memory and RAM hold their initialisers.    *)
(* DEBUG_LOG is fixed when the sketch is built: line 53 defines it, and    *)
(* the README describes it as a flag the user enables, so both builds are  *)
(* modelled and the flag never changes afterwards.                         *)
(***************************************************************************)
RamInit ==
    /\ moistureValue = 0
    /\ pumpOnSeconds = 0
    /\ updateSuccess = FALSE
    /\ timeToSleepSecs = 0

HistInit ==
    /\ firstReading = -1
    /\ pumpWasOn = FALSE
    /\ syncOk = FALSE
    /\ dailyRan = FALSE
    /\ otaCalled = FALSE
    /\ pushed = NoPush
    /\ scheduled = "none"
    /\ wifiTried = "none"
    /\ signIns = 0
    /\ fbReady = FALSE
    /\ otaExit = "none"
    /\ otaResp = NoOta
    /\ versionOp = "none"
    /\ pumpPolls = 0
    /\ versionRead = "none"

Init ==
    /\ DEBUG_LOG \in BOOLEAN
    /\ wakeup_reason = "undefined"
    /\ pc = "boot"
    /\ timeinfo = ZeroTm
    /\ rtc_valid = FALSE
    /\ previousDay = 0
    /\ RamInit
    /\ gpio = [p \in {pumpPin, moisturePowerPin} |-> LOW]
    /\ gpioHold = {}
    /\ wifiConnected = FALSE
    /\ prefsOpen = FALSE
    /\ sleepTimer = 0
    /\ HistInit
    /\ lastCycle = NoCycle
    /\ localCfg = ProvisionedCfg
    /\ remoteCfg = NoRemoteCfg
    /\ firstBoot = TRUE
    /\ ranToday = FALSE

(***************************************************************************)
(* enterDeepSleep(sleep_secs): arm the timer and suspend                   *)
(***************************************************************************)
enterDeepSleep(sleep_secs) ==
    /\ sleepTimer' = sleep_secs
    /\ lastCycle' = [daily |-> dailyRan,
                     day |-> IF dailyRan THEN timeinfo.tm_mday ELSE 0]
    /\ pc' = "asleep"

(***************************************************************************)
(* process_wakeup_reason(): a wake that the timer did not cause is only    *)
(* logged when DEBUG_LOG is defined, and otherwise sends the device back   *)
(* to sleep for TIME_TO_SLEEP                                              *)
(***************************************************************************)
\* mutant: the default case only logs in every build
process_wakeup_reason_OnlyLogs ==
    /\ pc = "boot"
    /\ pc' = "sense"
    /\ UNCHANGED << DEBUG_LOG, firstBoot, cfgVars, auxHist, syncHist,
                    wakeup_reason, rtcVars, ramVars, pinVars, netVars,
                    firstReading, pumpWasOn, syncOk, dailyRan, otaCalled, pushed,
                    scheduled, sleepTimer, lastCycle >>

process_wakeup_reason ==
    /\ pc = "boot"
    /\ IF wakeup_reason = "timer" \/ DEBUG_LOG
         THEN /\ pc' = "sense"
              /\ UNCHANGED << sleepTimer, lastCycle >>
         ELSE enterDeepSleep(TIME_TO_SLEEP)
    /\ UNCHANGED << DEBUG_LOG, firstBoot, cfgVars, auxHist, syncHist,
                    wakeup_reason, rtcVars, ramVars, pinVars, netVars,
                    firstReading, pumpWasOn, syncOk, dailyRan, otaCalled, pushed,
                    scheduled >>

(***************************************************************************)
(* Irrigation: lines 145-192                                               *)
(***************************************************************************)
\* release the pad holds, power the sensor, take the first reading
Sense ==
    /\ pc = "sense"
    /\ \E v \in Readings :
          /\ moistureValue' = v
          /\ firstReading' = v
    /\ gpioHold' = {}
    /\ gpio' = [gpio EXCEPT ![moisturePowerPin] = HIGH]
    /\ pc' = "actuate"
    /\ UNCHANGED << DEBUG_LOG, firstBoot, cfgVars, auxHist, syncHist,
                    wakeup_reason, rtcVars, pumpOnSeconds, updateSuccess,
                    timeToSleepSecs, netVars, sleepTimer, pumpWasOn, syncOk,
                    dailyRan, otaCalled, pushed, scheduled, lastCycle >>

\* mutant: the dry threshold is not above the wet threshold
IsDry_BelowWet(v) == v >= ADC_WET_VALUE

\* mutant: the dry test with >= instead of >
IsDry_AtLeast(v) == v >= ADC_DRY_VALUE

IsDry(v) == v > ADC_DRY_VALUE

\* mutant: the loop counts one second too many before it gives up
PumpLoopCond_OffByOne(v, secs) == v > ADC_WET_VALUE /\ secs <= PUMP_ON_SECONDS_MAX

\* the while condition of the pump loop
PumpLoopCond(v, secs) == v > ADC_WET_VALUE /\ secs < PUMP_ON_SECONDS_MAX

\* soil is dry: switch the pump on
PumpOn ==
    /\ pc = "actuate"
    /\ IsDry(moistureValue)
    /\ gpio' = [gpio EXCEPT ![pumpPin] = HIGH]
    /\ pumpWasOn' = TRUE
    /\ pc' = "pump_loop"
    /\ UNCHANGED << DEBUG_LOG, firstBoot, cfgVars, auxHist, syncHist,
                    wakeup_reason, rtcVars, ramVars, gpioHold, netVars,
                    sleepTimer, firstReading, syncOk, dailyRan, otaCalled, pushed,
                    scheduled, lastCycle >>

\* soil is not dry: the if-block is skipped
SkipPump ==
    /\ pc = "actuate"
    /\ ~IsDry(moistureValue)
    /\ pc' = "sensor_off"
    /\ UNCHANGED << DEBUG_LOG, firstBoot, cfgVars, auxHist, syncHist,
                    wakeup_reason, rtcVars, ramVars, pinVars, netVars,
                    sleepTimer, histVars >>

\* what the sensor can report on the poll after `secs` seconds of pumping
PollReadings(secs) ==
    IF (secs + 1) \in WetPolls THEN Readings ELSE Readings \ {ADC_WET_VALUE}

\* mutant: the loop body counts neither the elapsed second nor the poll
PumpPoll_NoCount ==
    /\ pc = "pump_loop"
    /\ PumpLoopCond(moistureValue, pumpOnSeconds)
    /\ \E v \in PollReadings(pumpOnSeconds) : moistureValue' = v
    /\ UNCHANGED << DEBUG_LOG, firstBoot, cfgVars, auxHist, syncHist,
                    wakeup_reason, pc, rtcVars, pumpOnSeconds, updateSuccess,
                    timeToSleepSecs, pinVars, netVars, sleepTimer, histVars >>

\* one iteration of the pump loop: wait a second, count it, read again
PumpPoll ==
    /\ pc = "pump_loop"
    /\ PumpLoopCond(moistureValue, pumpOnSeconds)
    /\ pumpOnSeconds' = pumpOnSeconds + 1
    /\ \E v \in PollReadings(pumpOnSeconds) : moistureValue' = v
    /\ pumpPolls' = pumpPolls + 1
    /\ UNCHANGED << DEBUG_LOG, firstBoot, cfgVars, ranToday, versionRead, syncHist,
                    wakeup_reason, pc, rtcVars, updateSuccess,
                    timeToSleepSecs, pinVars, netVars, sleepTimer, histVars >>

\* mutant: the loop is left without driving pumpPin LOW
PumpOff_LeftOn ==
    /\ pc = "pump_loop"
    /\ ~PumpLoopCond(moistureValue, pumpOnSeconds)
    /\ pc' = "sensor_off"
    /\ UNCHANGED << DEBUG_LOG, firstBoot, cfgVars, auxHist, syncHist,
                    wakeup_reason, rtcVars, ramVars, pinVars, netVars,
                    sleepTimer, histVars >>

\* the loop condition failed (wet or timed out): switch the pump off
PumpOff ==
    /\ pc = "pump_loop"
    /\ ~PumpLoopCond(moistureValue, pumpOnSeconds)
    /\ gpio' = [gpio EXCEPT ![pumpPin] = LOW]
    /\ pc' = "sensor_off"
    /\ UNCHANGED << DEBUG_LOG, firstBoot, cfgVars, auxHist, syncHist,
                    wakeup_reason, rtcVars, ramVars, gpioHold, netVars,
                    sleepTimer, histVars >>

\* power the sensor down and isolate both pads
SensorPowerDown ==
    /\ pc = "sensor_off"
    /\ gpio' = [gpio EXCEPT ![moisturePowerPin] = LOW]
    /\ gpioHold' = {pumpPin, moisturePowerPin}
    /\ pc' = "wifi"
    /\ UNCHANGED << DEBUG_LOG, firstBoot, cfgVars, auxHist, syncHist,
                    wakeup_reason, rtcVars, ramVars, netVars,
                    sleepTimer, histVars >>


(***************************************************************************)
(* Arduino String helpers used by check_firmware_update (a String is a     *)
(* sequence of one-character strings, indices are 0-based as in the code)  *)
(***************************************************************************)
DigitChars == << "0", "1", "2", "3", "4", "5", "6", "7", "8", "9" >>

IsDigit(c) == \E i \in 1 .. Len(DigitChars) : DigitChars[i] = c

DigitValue(c) == (CHOOSE i \in 1 .. Len(DigitChars) : DigitChars[i] = c) - 1

\* String::indexOf(ch): first position of ch, -1 when absent
indexOf(s, ch) ==
    IF \E i \in 1 .. Len(s) : s[i] = ch
      THEN (CHOOSE i \in 1 .. Len(s) : s[i] = ch /\ \A j \in 1 .. (i - 1) : s[j] # ch) - 1
      ELSE -1

\* String::lastIndexOf(ch): last position of ch, -1 when absent
lastIndexOf(s, ch) ==
    IF \E i \in 1 .. Len(s) : s[i] = ch
      THEN (CHOOSE i \in 1 .. Len(s) : s[i] = ch /\ \A j \in (i + 1) .. Len(s) : s[j] # ch) - 1
      ELSE -1

\* an int passed as unsigned int: a negative index (-1, -2) becomes a value
\* above every string length, and -1 stays above -2
ToUnsigned(x, len) == IF x < 0 THEN len + 3 + x ELSE x

\* String::substring(left, right): swaps the bounds when left > right, is empty
\* when left is at or past the end, and clips right to the length
substring(s, left, right) ==
    LET n  == Len(s)
        ul == ToUnsigned(left, n)
        ur == ToUnsigned(right, n)
        lo == IF ul > ur THEN ur ELSE ul
        hi == IF ul > ur THEN ul ELSE ur
    IN  IF lo >= n THEN << >>
        ELSE SubSeq(s, lo + 1, IF hi > n THEN n ELSE hi)

\* the vertical tab (character 11), written as the character itself
VerticalTab == ""

\* the characters atol skips before the number (isspace: 9 to 13 and the blank)
WhiteSpace == {" ", "\t", "\n", VerticalTab, "\f", "\r"}

\* atol: skip the leading white space
RECURSIVE SkipWhiteSpace(_)
SkipWhiteSpace(s) ==
    IF s # << >> /\ Head(s) \in WhiteSpace THEN SkipWhiteSpace(Tail(s)) ELSE s

\* the range of long on the ESP32, where long and int are both 32 bits wide
LONG_MAX == 2147483647
LONG_MIN == (0 - LONG_MAX) - 1

\* atol: the digit loop behind the white space and the sign; it stops at the
\* first character that is not a digit. acc carries the sign already. A number
\* beyond the range of long is clamped to LONG_MAX or LONG_MIN (the strtol of the
\* ESP32's C library), and the clamped value stays whatever digits follow
RECURSIVE atolDigits(_, _, _)
atolDigits(s, acc, neg) ==
    IF s = << >> \/ ~IsDigit(Head(s)) THEN acc
    ELSE LET d == DigitValue(Head(s))
         IN  IF neg
             THEN atolDigits(Tail(s),
                             IF acc < (LONG_MIN + d + 9) \div 10 THEN LONG_MIN
                             ELSE acc * 10 - d,
                             neg)
             ELSE atolDigits(Tail(s),
                             IF acc > (LONG_MAX - d) \div 10 THEN LONG_MAX
                             ELSE acc * 10 + d,
                             neg)

\* String::toInt() is atol(buffer): leading white space is skipped, one optional
\* sign is read, then the run of digits; 0 when no digit follows. The long goes
\* into an int of the same width
toInt(s) ==
    LET t      == SkipWhiteSpace(s)
        signed == t # << >> /\ Head(t) \in {"+", "-"}
        digits == IF signed THEN Tail(t) ELSE t
    IN  atolDigits(digits, 0, signed /\ Head(t) = "-")

\* lines 314-316
ParseVersion(fwversion) ==
    [ major |-> toInt(substring(fwversion, 0, indexOf(fwversion, ".") - 1)),
      minor |-> toInt(substring(fwversion, indexOf(fwversion, ".") + 1,
                                lastIndexOf(fwversion, ".") - 1)),
      micro |-> toInt(substring(fwversion, lastIndexOf(fwversion, ".") + 1,
                                Len(fwversion))) ]

\* lines 323-325
IsNewer(v) ==
    \/ v.major > MAJOR_VERSION
    \/ (v.major = MAJOR_VERSION /\ v.minor > MINOR_VERSION)
    \/ (v.major = MAJOR_VERSION /\ v.minor = MINOR_VERSION /\ v.micro > MICRO_VERSION)

\* version strings the remote store may hold
RemoteVersions ==
    { << "0", ".", "0", ".", "0" >>,
      << "0", ".", "0", ".", "1" >>,
      << "0", ".", "2", ".", "0" >>,
      << "1", ".", "0", ".", "0" >>,
      << "1", "0", ".", "2", "0", ".", "3" >> }

\* major, minor and micro of lines 314-316 for each of these strings
Parsed == [ v \in RemoteVersions |-> ParseVersion(v) ]

\* declared content lengths and written byte counts of a download
ImageLen == 2
ContentLens == {-1, 0, ImageLen}

\* The answers of the remote store, the HTTP server and the Update library to one
\* call of check_firmware_update; fields behind the first failing step are unused
\* and held at a fixed value.
OtaResponses ==
    { r \in [ gotLatest : BOOLEAN, fwversion : RemoteVersions, gotUrl : BOOLEAN,
              httpOk : BOOLEAN, contentLen : ContentLens, canBegin : BOOLEAN,
              written : 0 .. ImageLen, endOk : BOOLEAN, finished : BOOLEAN ] :
        /\ (~r.gotLatest => r.fwversion = << "0", ".", "0", ".", "0" >> /\ ~r.gotUrl)
        /\ (~(r.gotLatest /\ IsNewer(Parsed[r.fwversion])) => ~r.gotUrl)
        /\ (~r.gotUrl => ~r.httpOk)
        /\ (~r.httpOk => r.contentLen = 0 /\ ~r.canBegin)
        /\ (~r.canBegin => r.written = 0)
        /\ (r.written # r.contentLen \/ ~r.canBegin => ~r.endOk)
        /\ (~r.endOk => ~r.finished) }

\* mutant: Update.isFinished() is not tested before the restart
OtaExit_IgnoresFinished(r) ==
    IF ~r.gotLatest THEN "no_latest"
    ELSE IF ~IsNewer(Parsed[r.fwversion]) THEN "not_newer"
    ELSE IF ~r.gotUrl THEN "no_url"
    ELSE IF ~r.httpOk THEN "http_failed"
    ELSE IF ~r.canBegin THEN "cannot_begin"
    ELSE IF r.written # r.contentLen THEN "partial"
    ELSE IF ~r.endOk THEN "end_failed"
    ELSE "restart"

\* check_firmware_update(), lines 308-391: the place where the function is left
OtaExit(r) ==
    IF ~r.gotLatest THEN "no_latest"
    ELSE IF ~IsNewer(Parsed[r.fwversion]) THEN "not_newer"
    ELSE IF ~r.gotUrl THEN "no_url"
    ELSE IF ~r.httpOk THEN "http_failed"
    ELSE IF ~r.canBegin THEN "cannot_begin"
    ELSE IF r.written # r.contentLen THEN "partial"
    ELSE IF ~r.endOk THEN "end_failed"
    ELSE IF r.finished THEN "restart"
    ELSE "not_finished"

\* TRUE when the function reaches ESP.restart()
OtaRestarts(r) == OtaExit(r) = "restart"

\* what is remembered of a call: every answer when the function restarts the
\* device, the version string it compared when it returned
OtaKept(r) ==
    IF OtaRestarts(r) THEN r
    ELSE [NoOta EXCEPT !.gotLatest = r.gotLatest, !.fwversion = r.fwversion]


(***************************************************************************)
(* Network part of setup(): lines 194-275                                  *)
(***************************************************************************)
\* mutant: the network block is entered whatever the status is
WiFiConnect_NoStatusTest ==
    /\ pc = "wifi"
    /\ prefsOpen' = TRUE
    /\ \E polls \in 0 .. WIFI_RETRY_CNT :
          \E status \in (IF polls < WIFI_RETRY_CNT THEN {TRUE} ELSE BOOLEAN) :
             /\ wifiConnected' = status
             /\ wifiTried' = IF status THEN "connected" ELSE "failed"
             /\ pc' = "time_sync"
    /\ UNCHANGED << DEBUG_LOG, firstBoot, cfgVars, auxHist, signIns, fbReady, otaExit, otaResp, versionOp,
                    wakeup_reason, rtcVars, ramVars, pinVars,
                    sleepTimer, histVars >>

\* open the preferences, start WiFi and poll the status at most WIFI_RETRY_CNT
\* times; the status is read once more at line 213
WiFiConnect ==
    /\ pc = "wifi"
    /\ prefsOpen' = TRUE
    /\ \E polls \in 0 .. WIFI_RETRY_CNT :
          \E status \in (IF polls < WIFI_RETRY_CNT THEN {TRUE} ELSE BOOLEAN) :
             /\ wifiConnected' = status
             /\ wifiTried' = IF status THEN "connected" ELSE "failed"
             /\ pc' = IF status THEN "time_sync" ELSE "schedule"
    /\ UNCHANGED << DEBUG_LOG, firstBoot, cfgVars, auxHist, signIns, fbReady, otaExit, otaResp, versionOp,
                    wakeup_reason, rtcVars, ramVars, pinVars,
                    sleepTimer, histVars >>

\* mutant: the day is remembered when the time is synced
printLocalTime_StoresDay ==
    /\ pc = "time_sync"
    /\ \E ok \in BOOLEAN :
          /\ syncOk' = ok
          /\ rtc_valid' = IF ok THEN TRUE ELSE rtc_valid
          /\ \E t \in (IF ok THEN TimeSamples ELSE FailedSyncSamples(timeinfo)) :
                /\ timeinfo' = t
                /\ previousDay' = t.tm_mday
                /\ ranToday' = IF ok /\ t.tm_mday # previousDay THEN FALSE ELSE ranToday
    /\ pc' = "sign_in"
    /\ UNCHANGED << DEBUG_LOG, firstBoot, cfgVars, pumpPolls, versionRead, syncHist,
                    wakeup_reason, ramVars, pinVars, netVars,
                    sleepTimer, firstReading, pumpWasOn, dailyRan, otaCalled, pushed,
                    scheduled, lastCycle >>

\* configTime() and printLocalTime(): when getLocalTime succeeds timeinfo holds a
\* fresh sample and rtc_valid is set; when it fails the function returns at once
\* and rtc_valid stays as the earlier cycles left it, while timeinfo, which was
\* handed to getLocalTime by address, holds whatever the failed call left in it
printLocalTime ==
    /\ pc = "time_sync"
    /\ \E ok \in BOOLEAN :
          /\ syncOk' = ok
          /\ rtc_valid' = IF ok THEN TRUE ELSE rtc_valid
          /\ \E t \in (IF ok THEN TimeSamples ELSE FailedSyncSamples(timeinfo)) :
                /\ timeinfo' = t
                /\ ranToday' = IF ok /\ t.tm_mday # previousDay THEN FALSE ELSE ranToday
    /\ pc' = "sign_in"
    /\ UNCHANGED << DEBUG_LOG, firstBoot, cfgVars, pumpPolls, versionRead, syncHist,
                    wakeup_reason, previousDay, ramVars, pinVars, netVars,
                    sleepTimer, firstReading, pumpWasOn, dailyRan, otaCalled, pushed,
                    scheduled, lastCycle >>

\* mutant: the result of the sign-in is not tested
Fb_init_IgnoresReady ==
    /\ pc = "sign_in"
    /\ signIns' = signIns + 1
    /\ \E ready \in BOOLEAN :
          /\ fbReady' = ready
          /\ pc' = "telemetry"
    /\ UNCHANGED << DEBUG_LOG, firstBoot, cfgVars, auxHist, wifiTried, otaExit, otaResp, versionOp,
                    wakeup_reason, rtcVars, ramVars, pinVars, netVars,
                    sleepTimer, histVars >>

\* mutant: after the sign-in setup() goes to the day test without pushing
Fb_init_SkipsPush ==
    /\ pc = "sign_in"
    /\ signIns' = signIns + 1
    /\ \E ready \in BOOLEAN :
          /\ fbReady' = ready
          /\ pc' = IF ready THEN "daily" ELSE "disconnect"
    /\ UNCHANGED << DEBUG_LOG, firstBoot, cfgVars, auxHist, wifiTried, otaExit, otaResp, versionOp,
                    wakeup_reason, rtcVars, ramVars, pinVars, netVars,
                    sleepTimer, histVars >>

\* Fb_init() always returns true; Firebase.ready() is the outcome of the sign-in
Fb_init ==
    /\ pc = "sign_in"
    /\ signIns' = signIns + 1
    /\ \E ready \in BOOLEAN :
          /\ fbReady' = ready
          /\ pc' = IF ready THEN "telemetry" ELSE "disconnect"
    /\ UNCHANGED << DEBUG_LOG, firstBoot, cfgVars, auxHist, wifiTried, otaExit, otaResp, versionOp,
                    wakeup_reason, rtcVars, ramVars, pinVars, netVars,
                    sleepTimer, histVars >>

\* mutant: the record carries the reading taken before the watering
TelemetryJson_FirstReading == [moisture |-> firstReading, pump_on_seconds |-> pumpOnSeconds]

\* the JSON of lines 227-229
TelemetryJson == [moisture |-> moistureValue, pump_on_seconds |-> pumpOnSeconds]

\* mutant: updateSuccess is set whether or not the push succeeded
PushTelemetry_AlwaysSuccess ==
    /\ pc = "telemetry"
    /\ \E ok \in BOOLEAN :
          /\ updateSuccess' = TRUE
          /\ pushed' = [st |-> IF ok THEN "ok" ELSE "failed",
                        moisture |-> moistureValue,
                        pump_on_seconds |-> pumpOnSeconds]
    /\ pc' = "daily"
    /\ UNCHANGED << DEBUG_LOG, firstBoot, cfgVars, auxHist, syncHist,
                    wakeup_reason, rtcVars, moistureValue, pumpOnSeconds,
                    timeToSleepSecs, pinVars, netVars, sleepTimer, firstReading,
                    pumpWasOn, syncOk, dailyRan, otaCalled, scheduled, lastCycle >>

\* mutant: a failed push leaves the block of the remote steps
PushTelemetry_FailureSkipsDaily ==
    /\ pc = "telemetry"
    /\ \E ok \in BOOLEAN :
          /\ updateSuccess' = IF ok THEN TRUE ELSE updateSuccess
          /\ pushed' = [st |-> IF ok THEN "ok" ELSE "failed",
                        moisture |-> TelemetryJson.moisture,
                        pump_on_seconds |-> TelemetryJson.pump_on_seconds]
          /\ pc' = IF ok THEN "daily" ELSE "disconnect"
    /\ UNCHANGED << DEBUG_LOG, firstBoot, cfgVars, auxHist, syncHist,
                    wakeup_reason, rtcVars, moistureValue, pumpOnSeconds,
                    timeToSleepSecs, pinVars, netVars, sleepTimer, firstReading,
                    pumpWasOn, syncOk, dailyRan, otaCalled, scheduled, lastCycle >>

\* pushJSON, lines 235-246
PushTelemetry ==
    /\ pc = "telemetry"
    /\ \E ok \in BOOLEAN :
          /\ updateSuccess' = IF ok THEN TRUE ELSE updateSuccess
          /\ pushed' = [st |-> IF ok THEN "ok" ELSE "failed",
                        moisture |-> TelemetryJson.moisture,
                        pump_on_seconds |-> TelemetryJson.pump_on_seconds]
    /\ pc' = "daily"
    /\ UNCHANGED << DEBUG_LOG, firstBoot, cfgVars, auxHist, syncHist,
                    wakeup_reason, rtcVars, moistureValue, pumpOnSeconds,
                    timeToSleepSecs, pinVars, netVars, sleepTimer, firstReading,
                    pumpWasOn, syncOk, dailyRan, otaCalled, scheduled, lastCycle >>

\* the gate of the once-a-day block, line 250
DayChanged(currentDay, prevDay) == currentDay # prevDay

\* mutant: the block is entered but the day is not remembered
DailyCheck_DayNotStored ==
    /\ pc = "daily"
    /\ IF DayChanged(timeinfo.tm_mday, previousDay)
         THEN /\ dailyRan' = TRUE
              /\ ranToday' = TRUE
              /\ pc' = "ota"
         ELSE /\ pc' = "disconnect"
              /\ UNCHANGED << dailyRan, ranToday >>
    /\ UNCHANGED << DEBUG_LOG, firstBoot, cfgVars, pumpPolls, versionRead, syncHist,
                    wakeup_reason, rtcVars, ramVars, pinVars,
                    netVars, sleepTimer, firstReading, pumpWasOn, syncOk, otaCalled,
                    pushed, scheduled, lastCycle >>

\* lines 249-251
DailyCheck ==
    /\ pc = "daily"
    /\ IF DayChanged(timeinfo.tm_mday, previousDay)
         THEN /\ previousDay' = timeinfo.tm_mday
              /\ dailyRan' = TRUE
              /\ ranToday' = TRUE
              /\ pc' = "ota"
         ELSE /\ pc' = "disconnect"
              /\ UNCHANGED << previousDay, dailyRan, ranToday >>
    /\ UNCHANGED << DEBUG_LOG, firstBoot, cfgVars, pumpPolls, versionRead, syncHist,
                    wakeup_reason, timeinfo, rtc_valid, ramVars, pinVars,
                    netVars, sleepTimer, firstReading, pumpWasOn, syncOk, otaCalled,
                    pushed, scheduled, lastCycle >>

\* mutant: a failed update leaves setup() behind the block that releases the
\* network
check_firmware_update_FailureSkipsRelease ==
    /\ pc = "ota"
    /\ otaCalled' = TRUE
    /\ \E r \in OtaResponses :
          /\ otaExit' = OtaExit(r)
          /\ otaResp' = OtaKept(r)
          /\ pc' = IF OtaRestarts(r) THEN "restart"
                   ELSE IF OtaExit(r) \in {"no_latest", "not_newer"} THEN "version"
                   ELSE "schedule"
    /\ UNCHANGED << DEBUG_LOG, firstBoot, cfgVars, auxHist, wifiTried, signIns, fbReady, versionOp,
                    wakeup_reason, rtcVars, ramVars, pinVars, netVars,
                    sleepTimer, firstReading, pumpWasOn, syncOk, dailyRan, pushed,
                    scheduled, lastCycle >>

\* mutant: the function returns after a finished update instead of restarting
check_firmware_update_ReturnsAfterFlash ==
    /\ pc = "ota"
    /\ otaCalled' = TRUE
    /\ \E r \in OtaResponses :
          /\ otaExit' = OtaExit(r)
          /\ otaResp' = OtaKept(r)
          /\ pc' = "version"
    /\ UNCHANGED << DEBUG_LOG, firstBoot, cfgVars, auxHist, wifiTried, signIns, fbReady, versionOp,
                    wakeup_reason, rtcVars, ramVars, pinVars, netVars,
                    sleepTimer, firstReading, pumpWasOn, syncOk, dailyRan, pushed,
                    scheduled, lastCycle >>

\* mutant: a failed check forgets the day, so that the next cycle tries again
check_firmware_update_FailureClearsDay ==
    /\ pc = "ota"
    /\ otaCalled' = TRUE
    /\ \E r \in OtaResponses :
          /\ otaExit' = OtaExit(r)
          /\ otaResp' = OtaKept(r)
          /\ previousDay' = IF OtaExit(r) \in {"not_newer", "restart"} THEN previousDay ELSE 0
          /\ pc' = IF OtaRestarts(r) THEN "restart" ELSE "version"
    /\ UNCHANGED << DEBUG_LOG, firstBoot, cfgVars, auxHist, wifiTried, signIns, fbReady, versionOp,
                    wakeup_reason, timeinfo, rtc_valid, ramVars, pinVars, netVars,
                    sleepTimer, firstReading, pumpWasOn, syncOk, dailyRan, pushed,
                    scheduled, lastCycle >>

\* check_firmware_update(), line 252: returns, or restarts into the new image
check_firmware_update ==
    /\ pc = "ota"
    /\ otaCalled' = TRUE
    /\ \E r \in OtaResponses :
          /\ otaExit' = OtaExit(r)
          /\ otaResp' = OtaKept(r)
          /\ pc' = IF OtaRestarts(r) THEN "restart" ELSE "version"
    /\ UNCHANGED << DEBUG_LOG, firstBoot, cfgVars, auxHist, wifiTried, signIns, fbReady, versionOp,
                    wakeup_reason, rtcVars, ramVars, pinVars, netVars,
                    sleepTimer, firstReading, pumpWasOn, syncOk, dailyRan, pushed,
                    scheduled, lastCycle >>

\* String(MAJOR_VERSION) + "." + String(MINOR_VERSION) + "." + String(MICRO_VERSION)
CurrentVersionString ==
    << DigitChars[MAJOR_VERSION + 1], ".", DigitChars[MINOR_VERSION + 1], ".",
       DigitChars[MICRO_VERSION + 1] >>

\* strings the device's version path of the RTDB may hold
RemoteDeviceVersions == {CurrentVersionString, << "0", ".", "0", ".", "1" >>}

\* the outcome of getString on the version path (line 256) and of the
\* comparison of line 257
VersionReadResult(got, remote) ==
    IF ~got THEN "failed"
    ELSE IF remote = CurrentVersionString THEN "same"
    ELSE "other"

\* mutant: a version string written to the RTDB counts as a successful update
VersionReconcile_SetsSuccess ==
    /\ pc = "version"
    /\ \E got \in BOOLEAN, remote \in RemoteDeviceVersions :
          /\ versionRead' = VersionReadResult(got, remote)
          /\ versionOp' = IF got /\ remote = CurrentVersionString THEN "kept" ELSE "written"
          /\ updateSuccess' = (updateSuccess \/ versionOp' = "written")
    /\ otaExit' = "none"
    /\ otaResp' = NoOta
    /\ pc' = "disconnect"
    /\ UNCHANGED << DEBUG_LOG, firstBoot, cfgVars, pumpPolls, ranToday, wifiTried, signIns, fbReady,
                    wakeup_reason, rtcVars, moistureValue, pumpOnSeconds,
                    timeToSleepSecs, pinVars, netVars, sleepTimer, histVars >>

\* mutant: the current version is written whatever the path holds
VersionReconcile_AlwaysWrites ==
    /\ pc = "version"
    /\ \E got \in BOOLEAN, remote \in RemoteDeviceVersions :
          /\ versionRead' = VersionReadResult(got, remote)
          /\ versionOp' = "written"
    /\ otaExit' = "none"
    /\ otaResp' = NoOta
    /\ pc' = "disconnect"
    /\ UNCHANGED << DEBUG_LOG, firstBoot, cfgVars, pumpPolls, ranToday, wifiTried, signIns, fbReady,
                    wakeup_reason, rtcVars, ramVars, pinVars, netVars,
                    sleepTimer, histVars >>

\* lines 254-262: read the device's version path; write the current version
\* when the path cannot be read or holds another string. The record of the
\* call of check_firmware_update is dropped once setup() continues here.
VersionReconcile ==
    /\ pc = "version"
    /\ \E got \in BOOLEAN, remote \in RemoteDeviceVersions :
          /\ versionRead' = VersionReadResult(got, remote)
          /\ versionOp' = IF got /\ remote = CurrentVersionString THEN "kept" ELSE "written"
    /\ otaExit' = "none"
    /\ otaResp' = NoOta
    /\ pc' = "disconnect"
    /\ UNCHANGED << DEBUG_LOG, firstBoot, cfgVars, pumpPolls, ranToday, wifiTried, signIns, fbReady,
                    wakeup_reason, rtcVars, ramVars, pinVars, netVars,
                    sleepTimer, histVars >>

\* lines 267-271: close the preferences, switch WiFi off (what the version path
\* returned is not remembered past this point)
Disconnect ==
    /\ pc = "disconnect"
    /\ prefsOpen' = FALSE
    /\ wifiConnected' = FALSE
    /\ versionRead' = "none"
    /\ pc' = "schedule"
    /\ UNCHANGED << DEBUG_LOG, firstBoot, cfgVars, pumpPolls, ranToday, syncHist,
                    wakeup_reason, rtcVars, ramVars, pinVars,
                    sleepTimer, histVars >>

(***************************************************************************)
(* Sleep scheduling: lines 277-298                                         *)
(***************************************************************************)
\* mutant: the evening branch starts at 20:00 instead of 21:00
SleepBranch_From20(debug, valid, currentHour, success) ==
    IF debug THEN "debug"
    ELSE IF valid /\ currentHour >= 20 THEN "evening"
    ELSE IF valid /\ currentHour < 8 THEN "morning"
    ELSE IF success THEN "period"
    ELSE "retry"

\* mutant: the morning branch includes the hour 8
SleepBranch_MorningThrough8(debug, valid, currentHour, success) ==
    IF debug THEN "debug"
    ELSE IF valid /\ currentHour > 20 THEN "evening"
    ELSE IF valid /\ currentHour <= 8 THEN "morning"
    ELSE IF success THEN "period"
    ELSE "retry"

\* which branch of lines 283-296 is taken (hours are 0..23, so the unsigned
\* currentHour equals tm_hour)
SleepBranch(debug, valid, currentHour, success) ==
    IF debug THEN "debug"
    ELSE IF valid /\ currentHour > 20 THEN "evening"
    ELSE IF valid /\ currentHour < 8 THEN "morning"
    ELSE IF success THEN "period"
    ELSE "retry"

\* mutant: the minutes already elapsed in the hour are not subtracted
SleepSecs_NoMinutes(debug, valid, tm, success) ==
    LET currentHour == tm.tm_hour
        branch == SleepBranch(debug, valid, currentHour, success)
    IN  CASE branch = "debug"   -> DEBUG_SLEEP_SECS
          [] branch = "evening" -> (32 - currentHour) * 3600
          [] branch = "morning" -> (8 - currentHour) * 3600
          [] branch = "period"  -> TIME_TO_SLEEP
          [] branch = "retry"   -> RETRY_SLEEP_SECS

\* the value assigned to timeToSleepSecs
SleepSecs(debug, valid, tm, success) ==
    LET currentHour == tm.tm_hour
        branch == SleepBranch(debug, valid, currentHour, success)
    IN  CASE branch = "debug"   -> DEBUG_SLEEP_SECS
          [] branch = "evening" -> (32 - currentHour) * 3600 - tm.tm_min * 60
          [] branch = "morning" -> (8 - currentHour) * 3600 - tm.tm_min * 60
          [] branch = "period"  -> TIME_TO_SLEEP
          [] branch = "retry"   -> RETRY_SLEEP_SECS

ScheduleSleep ==
    /\ pc = "schedule"
    /\ timeToSleepSecs' = SleepSecs(DEBUG_LOG, rtc_valid, timeinfo, updateSuccess)
    /\ scheduled' = SleepBranch(DEBUG_LOG, rtc_valid, timeinfo.tm_hour, updateSuccess)
    /\ enterDeepSleep(timeToSleepSecs')
    /\ UNCHANGED << DEBUG_LOG, firstBoot, cfgVars, auxHist, syncHist,
                    wakeup_reason, rtcVars, moistureValue, pumpOnSeconds,
                    updateSuccess, pinVars, netVars, firstReading, pumpWasOn, syncOk,
                    dailyRan, otaCalled, pushed >>

(***************************************************************************)
(* Deep sleep, wake and reset                                              *)
(***************************************************************************)
\* the sleep timer fires: setup() starts over, RAM is re-initialised, RTC memory
\* and the held pads are kept
TimerWake ==
    /\ pc = "asleep"
    /\ wakeup_reason' = "timer"
    /\ pc' = "boot"
    /\ moistureValue' = 0
    /\ pumpOnSeconds' = 0
    /\ updateSuccess' = FALSE
    /\ timeToSleepSecs' = 0
    /\ wifiConnected' = FALSE
    /\ prefsOpen' = FALSE
    /\ sleepTimer' = 0
    /\ firstReading' = -1
    /\ pumpWasOn' = FALSE
    /\ syncOk' = FALSE
    /\ dailyRan' = FALSE
    /\ otaCalled' = FALSE
    /\ pushed' = NoPush
    /\ scheduled' = "none"
    /\ firstBoot' = FALSE
    /\ wifiTried' = "none"
    /\ signIns' = 0
    /\ fbReady' = FALSE
    /\ otaExit' = "none"
    /\ otaResp' = NoOta
    /\ versionOp' = "none"
    /\ pumpPolls' = 0
    /\ versionRead' = "none"
    /\ UNCHANGED << DEBUG_LOG, cfgVars, ranToday, rtcVars, pinVars, lastCycle >>

\* ESP.restart() after a flashed update, or a power-on reset while asleep:
\* RTC memory is re-initialised as well, the Preferences are kept. The boot
\* that follows ESP.restart() is the first one of the image just flashed.
Reset ==
    /\ pc \in {"restart", "asleep"}
    /\ wakeup_reason' = "undefined"
    /\ pc' = "boot"
    /\ timeinfo' = ZeroTm
    /\ rtc_valid' = FALSE
    /\ previousDay' = 0
    /\ moistureValue' = 0
    /\ pumpOnSeconds' = 0
    /\ updateSuccess' = FALSE
    /\ timeToSleepSecs' = 0
    /\ gpio' = [p \in {pumpPin, moisturePowerPin} |-> LOW]
    /\ gpioHold' = {}
    /\ wifiConnected' = FALSE
    /\ prefsOpen' = FALSE
    /\ sleepTimer' = 0
    /\ firstReading' = -1
    /\ pumpWasOn' = FALSE
    /\ syncOk' = FALSE
    /\ dailyRan' = FALSE
    /\ otaCalled' = FALSE
    /\ pushed' = NoPush
    /\ scheduled' = "none"
    /\ lastCycle' = NoCycle
    /\ firstBoot' = (pc = "restart")
    /\ wifiTried' = "none"
    /\ signIns' = 0
    /\ fbReady' = FALSE
    /\ otaExit' = "none"
    /\ otaResp' = NoOta
    /\ versionOp' = "none"
    /\ pumpPolls' = 0
    /\ versionRead' = "none"
    /\ ranToday' = FALSE
    /\ UNCHANGED << DEBUG_LOG, cfgVars >>

\* the steps of one execution of setup()
CycleStep ==
    \/ process_wakeup_reason
    \/ Sense
    \/ PumpOn
    \/ SkipPump
    \/ PumpPoll
    \/ PumpOff
    \/ SensorPowerDown
    \/ WiFiConnect
    \/ printLocalTime
    \/ Fb_init
    \/ PushTelemetry
    \/ DailyCheck
    \/ check_firmware_update
    \/ VersionReconcile
    \/ Disconnect
    \/ ScheduleSleep

Next == CycleStep \/ TimerWake \/ Reset

Spec == Init /\ [][Next]_vars

\* the processor keeps executing setup() until it suspends or restarts
FairSpec == Spec /\ WF_vars(CycleStep)


(***************************************************************************)
(* The sleep computation on its own: every hour and minute, both builds,   *)
(* both values of rtc_valid and updateSuccess, at the point where setup()  *)
(* reaches line 277 with the network released                              *)
(***************************************************************************)
InitSched ==
    /\ DEBUG_LOG \in BOOLEAN
    /\ wakeup_reason = "timer"
    /\ pc = "schedule"
    /\ \E h \in AllHours, m \in AllMinutes : timeinfo = Tm(h, m, 1)
    /\ rtc_valid \in BOOLEAN
    /\ previousDay = 1
    /\ moistureValue = ADC_WET_VALUE
    /\ pumpOnSeconds = 0
    /\ updateSuccess \in BOOLEAN
    /\ timeToSleepSecs = 0
    /\ gpio = [p \in {pumpPin, moisturePowerPin} |-> LOW]
    /\ gpioHold = {pumpPin, moisturePowerPin}
    /\ wifiConnected = FALSE
    /\ prefsOpen = FALSE
    /\ sleepTimer = 0
    /\ firstReading = ADC_WET_VALUE
    /\ pumpWasOn = FALSE
    /\ syncOk = FALSE
    /\ dailyRan = FALSE
    /\ otaCalled = FALSE
    /\ pushed = NoPush
    /\ scheduled = "none"
    /\ lastCycle = NoCycle
    /\ localCfg = ProvisionedCfg
    /\ remoteCfg = NoRemoteCfg
    /\ firstBoot = FALSE
    /\ wifiTried = "none"
    /\ signIns = 0
    /\ fbReady = FALSE
    /\ otaExit = "none"
    /\ otaResp = NoOta
    /\ versionOp = "none"
    /\ pumpPolls = 0
    /\ versionRead = "none"
    /\ ranToday = FALSE

NextSched == ScheduleSleep

SpecSched == InitSched /\ [][NextSched]_vars


(***************************************************************************)
(* The once-a-day part on its own: setup() has connected, synced the time, *)
(* signed in and pushed, and reaches line 249 with every combination of    *)
(* the three tunables in the RTDB                                          *)
(***************************************************************************)
InitDaily ==
    /\ DEBUG_LOG \in BOOLEAN
    /\ wakeup_reason = "timer"
    /\ pc = "daily"
    /\ timeinfo \in TimeSamples
    /\ rtc_valid = TRUE
    /\ previousDay \in 0 .. MaxDay
    /\ moistureValue = ADC_WET_VALUE
    /\ pumpOnSeconds = 0
    /\ updateSuccess \in BOOLEAN
    /\ timeToSleepSecs = 0
    /\ gpio = [p \in {pumpPin, moisturePowerPin} |-> LOW]
    /\ gpioHold = {pumpPin, moisturePowerPin}
    /\ wifiConnected = TRUE
    /\ prefsOpen = TRUE
    /\ sleepTimer = 0
    /\ firstReading = ADC_WET_VALUE
    /\ pumpWasOn = FALSE
    /\ syncOk = TRUE
    /\ dailyRan = FALSE
    /\ otaCalled = FALSE
    /\ pushed = [st |-> IF updateSuccess THEN "ok" ELSE "failed",
                 moisture |-> ADC_WET_VALUE, pump_on_seconds |-> 0]
    /\ scheduled = "none"
    /\ lastCycle = NoCycle
    /\ localCfg = ProvisionedCfg
    /\ remoteCfg \in RemoteCfgs
    /\ firstBoot = FALSE
    /\ wifiTried = "connected"
    /\ signIns = 1
    /\ fbReady = TRUE
    /\ otaExit = "none"
    /\ otaResp = NoOta
    /\ versionOp = "none"
    /\ pumpPolls = 0
    /\ versionRead = "none"
    /\ ranToday = (previousDay = timeinfo.tm_mday)

NextDaily ==
    \/ DailyCheck
    \/ check_firmware_update
    \/ VersionReconcile
    \/ Disconnect
    \/ ScheduleSleep

SpecDaily == InitDaily /\ [][NextDaily]_vars


(***************************************************************************)
(* Properties                                                              *)
(***************************************************************************)
\* positions of setup() behind the irrigation step, and the two ends of a cycle
AfterIrrigation ==
    {"wifi", "time_sync", "sign_in", "telemetry", "daily", "ota", "version",
     "disconnect", "schedule"}
CycleEnd == {"asleep", "restart"}

\* C1: in a cycle that took its first reading v, the pump is driven on only if
\* v > ADC_DRY_VALUE, and once the dry test is passed a cycle with
\* v > ADC_DRY_VALUE has driven the pump on.
C1_PumpIffDry ==
    /\ (pumpWasOn \/ gpio[pumpPin] = HIGH) => (firstReading > ADC_DRY_VALUE)
    /\ (firstReading > ADC_DRY_VALUE /\ pc \notin {"sense", "actuate"}) => pumpWasOn

\* C1 witness: a cycle whose first reading was dry has pumped and gone to sleep
C1_Witness ==
    /\ pc = "asleep"
    /\ firstReading = ADC_DRY_VALUE + 1
    /\ pumpWasOn
    /\ pumpOnSeconds > 0

\* C2: pumpOnSeconds never exceeds PUMP_ON_SECONDS_MAX, and a pump loop that was
\* entered is always left, with the pump off, whatever the sensor reports.
C2_PumpLoopTerminates ==
    /\ [](pumpOnSeconds <= PUMP_ON_SECONDS_MAX)
    /\ [](pc \in {"sensor_off"} \cup AfterIrrigation \cup CycleEnd => gpio[pumpPin] = LOW)
    /\ ((pc = "pump_loop") ~> (pc = "sensor_off" /\ gpio[pumpPin] = LOW))

\* C2 witness: the sensor never reported wet and the loop ended by the timeout
C2_Witness ==
    /\ pc = "sensor_off"
    /\ pumpWasOn
    /\ pumpOnSeconds = PUMP_ON_SECONDS_MAX
    /\ moistureValue > ADC_WET_VALUE
    /\ gpio[pumpPin] = LOW

\* C3 as stated: every suspension is reached through the sleep scheduling
C3_SleepOnlyThroughSchedule ==
    pc = "asleep" => scheduled # "none"

\* C3 amended: every cycle ends in deep sleep or in a restart; a restart happens
\* only out of the firmware check; a suspension comes from the sleep scheduling,
\* or, in a build without DEBUG_LOG, straight from process_wakeup_reason on a
\* wake that the timer did not cause.
C3_CycleEnds ==
    /\ ((pc = "boot") ~> (pc \in CycleEnd))
    /\ [](pc = "restart" => otaCalled)
    /\ [](pc = "asleep" =>
            \/ scheduled # "none"
            \/ (~DEBUG_LOG /\ wakeup_reason # "timer" /\ firstReading = -1))

\* C3 witness: a cycle that failed at every network step is asleep
C3_Witness ==
    /\ pc = "asleep"
    /\ scheduled = "retry"
    /\ pumpWasOn
    /\ ~syncOk
    /\ pushed.st = "none"

\* C4: behind the irrigation step the pump output and the sensor power output
\* are off, in every later position of the cycle and when it suspends or restarts.
C4_OutputsOffAfterIrrigation ==
    pc \in AfterIrrigation \cup CycleEnd =>
        /\ gpio[pumpPin] = LOW
        /\ gpio[moisturePowerPin] = LOW

\* C4 witness: the pump loop ended by the timeout and the device is asleep
C4_Witness ==
    /\ pc = "asleep"
    /\ pumpWasOn
    /\ pumpOnSeconds = PUMP_ON_SECONDS_MAX
    /\ moistureValue > ADC_WET_VALUE
    /\ gpio[pumpPin] = LOW
    /\ gpio[moisturePowerPin] = LOW
    /\ gpioHold = {pumpPin, moisturePowerPin}


\* C5: a pump-on time that no successful push has reported is kept across the
\* deep sleep: when a cycle that pumped and did not push successfully is woken
\* by the timer, the pump-on seconds it holds are still there.
C5_PumpSecondsKeptAcrossSleep ==
    [][ ( /\ pc = "asleep"
          /\ pumpOnSeconds > 0
          /\ pushed.st # "ok"
          /\ pc' = "boot"
          /\ wakeup_reason' = "timer" )
        => pumpOnSeconds' = pumpOnSeconds ]_vars

\* C6: when the cycle before the deep sleep entered the once-a-day block on day d
\* and this cycle's timeinfo shows day d again, this cycle does not enter the block
\* and does not call the OTA updater.
C6_DailyAtMostOncePerDay ==
    ( /\ pc # "asleep"
      /\ lastCycle.daily
      /\ lastCycle.day = timeinfo.tm_mday )
    => (~dailyRan /\ ~otaCalled)

\* C6 witness: the previous cycle ran the block, this one synced the time to the
\* same day, pushed, passed the gate without entering the block
C6_Witness ==
    /\ pc = "schedule"
    /\ lastCycle.daily
    /\ syncOk
    /\ rtc_valid
    /\ lastCycle.day = timeinfo.tm_mday
    /\ pushed.st # "none"
    /\ ~dailyRan
    /\ ~otaCalled

\* C7: the once-a-day block is entered only in a cycle whose time sync succeeded
C7_DailyOnlyAfterSync ==
    dailyRan => syncOk

sleepHour == timeinfo.tm_hour
sleepMinute == timeinfo.tm_min

\* the wake lands on 08:00:00
WakesAtEight ==
    (sleepHour * 3600 + sleepMinute * 60 + timeToSleepSecs) % 86400 = 8 * 3600

\* the quiet-hours value of C8 for the hours 21..23 and 0..7
QuietSecs ==
    IF sleepHour >= 21 THEN (32 - sleepHour) * 3600 - sleepMinute * 60
    ELSE (8 - sleepHour) * 3600 - sleepMinute * 60

\* C8 as stated: with a valid time in the hours 21..23 and 0..7 the sleep is the
\* quiet-hours value and the wake lands on 08:00
C8_QuietSleepAnyBuild ==
    (pc = "asleep" /\ rtc_valid /\ (sleepHour \in 21 .. 23 \/ sleepHour \in 0 .. 7))
    => (timeToSleepSecs = QuietSecs /\ sleepTimer = QuietSecs /\ WakesAtEight)

\* C8 amended: in a build without DEBUG_LOG, with a valid time in the hours 21..23
\* the sleep is (32-h)*3600 - m*60 and in the hours 0..7 it is (8-h)*3600 - m*60,
\* whatever updateSuccess is, and the wake lands on 08:00.
C8_QuietSleepRelease ==
    ( /\ pc = "asleep"
      /\ ~DEBUG_LOG
      /\ rtc_valid
      /\ (sleepHour \in 21 .. 23 \/ sleepHour \in 0 .. 7) )
    => (timeToSleepSecs = QuietSecs /\ sleepTimer = QuietSecs /\ WakesAtEight)

\* C8 witness: 22:15 gives 35100 seconds
C8_Witness ==
    /\ pc = "asleep"
    /\ ~DEBUG_LOG
    /\ rtc_valid
    /\ ~updateSuccess
    /\ sleepHour = 22
    /\ sleepMinute = 15
    /\ sleepTimer = 35100

\* C9 as stated, read for the build without DEBUG_LOG: with a valid time after
\* 20:00 or before 08:00 (20:01 onwards) the scheduler sleeps until 08:00
C9_QuietFrom2001 ==
    ( /\ pc = "asleep"
      /\ ~DEBUG_LOG
      /\ rtc_valid
      /\ \/ sleepHour > 20
         \/ sleepHour < 8
         \/ (sleepHour = 20 /\ sleepMinute >= 1) )
    => (scheduled \notin {"period", "retry"} /\ WakesAtEight)

\* C9 amended: the quiet window is 21:00-08:00; in a build without DEBUG_LOG a
\* valid time in the hours 21..23 and 0..7 makes the scheduler sleep until 08:00,
\* and in the hours 8..20 (20:01-20:59 included) it uses the wake period or the
\* 60 s retry.
C9_QuietFrom21 ==
    (pc = "asleep" /\ ~DEBUG_LOG /\ rtc_valid) =>
        /\ (sleepHour > 20 \/ sleepHour < 8) =>
              (scheduled \in {"evening", "morning"} /\ WakesAtEight)
        /\ (sleepHour \in 8 .. 20) =>
              (scheduled \in {"period", "retry"} /\
               timeToSleepSecs \in {TIME_TO_SLEEP, RETRY_SLEEP_SECS})

\* C9 witness: 20:30 with a valid time sleeps the regular wake period
C9_Witness ==
    /\ pc = "asleep"
    /\ ~DEBUG_LOG
    /\ rtc_valid
    /\ sleepHour = 20
    /\ sleepMinute = 30
    /\ updateSuccess
    /\ sleepTimer = TIME_TO_SLEEP

\* a cycle that went through the sleep scheduling outside the quiet hours
\* (hours 8..20) or without a valid time
ScheduledOutsideQuiet ==
    /\ pc = "asleep"
    /\ scheduled # "none"
    /\ (~rtc_valid \/ sleepHour \in 8 .. 20)

\* C10 as stated: outside the quiet window or without a valid time the sleep is
\* the wake period exactly when this cycle's push succeeded, and 60 s otherwise
C10_PeriodIffPushedAnyBuild ==
    ScheduledOutsideQuiet =>
        /\ (sleepTimer = TIME_TO_SLEEP) <=> (pushed.st = "ok")
        /\ (pushed.st # "ok") => (sleepTimer = RETRY_SLEEP_SECS)

\* C10 amended: the same in a build without DEBUG_LOG
C10_PeriodIffPushedRelease ==
    (ScheduledOutsideQuiet /\ ~DEBUG_LOG) =>
        /\ (sleepTimer = TIME_TO_SLEEP) <=> (pushed.st = "ok")
        /\ (pushed.st # "ok") => (sleepTimer = RETRY_SLEEP_SECS)

\* C10 witness: the sign-in failed at noon and the device sleeps 60 s
C10_Witness ==
    /\ pc = "asleep"
    /\ ~DEBUG_LOG
    /\ syncOk
    /\ sleepHour = 12
    /\ pushed.st = "none"
    /\ sleepTimer = RETRY_SLEEP_SECS


\* C11: a cycle in which no time sync succeeded (WiFi not connected or the time
\* fetch failed) never takes its sleep duration from a quiet-hours branch, also
\* when an earlier cycle had synced the time.
C11_NoQuietWithoutSync ==
    (pc = "asleep" /\ scheduled # "none" /\ ~syncOk)
    => scheduled \notin {"evening", "morning"}

\* C12: in a cycle whose WiFi status test failed, setup() is at the sleep
\* scheduling or asleep, updateSuccess is false, and no time sync, sign-in,
\* telemetry push, once-a-day block, OTA check or version access has happened;
\* previousDay changes in no step other than the entry of the once-a-day block,
\* which such a cycle does not reach.
C12_WifiFailureSkipsSync ==
    /\ [](wifiTried = "failed" =>
            /\ pc \in {"schedule", "asleep"}
            /\ ~wifiConnected
            /\ ~updateSuccess
            /\ ~syncOk
            /\ signIns = 0
            /\ pushed = NoPush
            /\ ~dailyRan
            /\ ~otaCalled
            /\ versionOp = "none"
            /\ (pc = "asleep" => scheduled # "none"))
    /\ [][ (wifiTried' = "failed") => (previousDay' = previousDay) ]_vars
    /\ [][ (previousDay' # previousDay) => ((pc = "daily" /\ dailyRan') \/ pc' = "boot") ]_vars

\* C12 witness: WiFi did not connect after a pump run and the device sleeps 60 s
\* in the release build
C12_Witness ==
    /\ pc = "asleep"
    /\ wifiTried = "failed"
    /\ pumpWasOn
    /\ ~DEBUG_LOG
    /\ ~rtc_valid
    /\ sleepTimer = RETRY_SLEEP_SECS

\* C13: Fb_init is called at most once in a cycle; when the sign-in did not
\* succeed there is no push, no once-a-day block, no OTA check and no version
\* access, updateSuccess stays false, and setup() goes on to release the network
\* and to the sleep scheduling.
C13_SignInFailureSkipsRemoteSync ==
    /\ signIns <= 1
    /\ (signIns = 1 /\ ~fbReady) =>
          /\ pc \in {"disconnect", "schedule", "asleep"}
          /\ pushed = NoPush
          /\ ~dailyRan
          /\ ~otaCalled
          /\ versionOp = "none"
          /\ ~updateSuccess
          /\ (pc \in {"schedule", "asleep"} => (~wifiConnected /\ ~prefsOpen))
          /\ (pc = "asleep" => scheduled # "none")

\* C13 witness: the time was synced, the sign-in failed, the device is asleep
C13_Witness ==
    /\ pc = "asleep"
    /\ wifiTried = "connected"
    /\ syncOk
    /\ signIns = 1
    /\ ~fbReady
    /\ scheduled \in {"retry", "debug", "evening", "morning"}


\* the three integers a string MAJOR.MINOR.MICRO denotes: the digits before the
\* first dot, between the two dots and after the last dot
DottedVersion(str) ==
    [ major |-> toInt(SubSeq(str, 1, indexOf(str, "."))),
      minor |-> toInt(SubSeq(str, indexOf(str, ".") + 2, lastIndexOf(str, "."))),
      micro |-> toInt(SubSeq(str, lastIndexOf(str, ".") + 2, Len(str))) ]

\* C14: when the remote store returned a version string MAJOR.MINOR.MICRO,
\* check_firmware_update goes on to the download (it passes the version test)
\* if and only if (MAJOR, MINOR, MICRO) is strictly greater than the compiled-in
\* version in lexicographic order.
C14_UpdateIffNewer ==
    (otaCalled /\ otaResp.gotLatest /\ otaExit # "none")
    => ((otaExit \notin {"no_latest", "not_newer"})
          <=> IsNewer(DottedVersion(otaResp.fwversion)))

\* C15: the device restarts out of check_firmware_update only when the remote
\* version was newer, the URL and the HTTP request were obtained, the staging
\* area was opened, the bytes written equal the declared content length,
\* Update.end() succeeded and Update.isFinished() holds; a partial download
\* leaves setup() running.
C15_RestartOnlyAfterVerifiedImage ==
    /\ pc = "restart" =>
          /\ otaCalled
          /\ otaResp.gotLatest
          /\ IsNewer(DottedVersion(otaResp.fwversion))
          /\ otaResp.gotUrl
          /\ otaResp.httpOk
          /\ otaResp.canBegin
          /\ otaResp.written = otaResp.contentLen
          /\ otaResp.endOk
          /\ otaResp.finished
    /\ otaExit = "partial" => pc = "version"

\* C15 witness: a newer image of ImageLen bytes was written in full and the
\* device restarts
C15_Witness ==
    /\ pc = "restart"
    /\ otaResp.contentLen = ImageLen
    /\ otaResp.written = ImageLen
    /\ pushed.st # "none"

\* the exits of check_firmware_update after a failed step
OtaFailures ==
    {"no_latest", "no_url", "http_failed", "cannot_begin", "partial", "end_failed",
     "not_finished"}

\* the sleep duration of the scheduling policy of the build
PolicySecs ==
    IF DEBUG_LOG THEN DEBUG_SLEEP_SECS
    ELSE IF rtc_valid /\ (sleepHour >= 21 \/ sleepHour <= 7) THEN QuietSecs
    ELSE IF pushed.st = "ok" THEN TIME_TO_SLEEP
    ELSE RETRY_SLEEP_SECS

\* C16: after every failed step check_firmware_update returns (setup() continues
\* behind the call), that cycle then reaches deep sleep through the sleep
\* scheduling, and a cycle that called the OTA check is asleep with the network
\* released and with the sleep duration of the scheduling policy.
C16_OtaFailureNonFatal ==
    /\ [](otaExit \in OtaFailures => pc = "version")
    /\ ((pc = "version" /\ otaExit \in OtaFailures)
          ~> (pc = "asleep" /\ otaCalled /\ scheduled # "none"))
    /\ []((pc = "asleep" /\ otaCalled) =>
            /\ ~wifiConnected
            /\ ~prefsOpen
            /\ scheduled # "none"
            /\ timeToSleepSecs = PolicySecs
            /\ sleepTimer = PolicySecs)

\* C16 witness: the stream ended early and setup() continues behind the call
C16_Witness ==
    /\ pc = "version"
    /\ otaCalled
    /\ otaExit = "partial"
    /\ wifiConnected
    /\ scheduled = "none"

\* C17: when check_firmware_update ended in ESP.restart(), the device is at the
\* restart: the version path was not accessed, no sleep was scheduled, no timer
\* armed, and the only step that follows is the boot of the new image.
C17_RestartBypassesSleep ==
    /\ [](otaExit = "restart" =>
            /\ pc = "restart"
            /\ versionOp = "none"
            /\ scheduled = "none"
            /\ sleepTimer = 0)
    /\ [][ pc = "restart" => (pc' = "boot" /\ wakeup_reason' = "undefined") ]_vars

\* C17 witness: the push succeeded, the update finished, the device restarts
C17_Witness ==
    /\ pc = "restart"
    /\ otaExit = "restart"
    /\ otaResp.finished
    /\ pushed.st = "ok"
    /\ sleepTimer = 0


Tunables == {"moist_dry", "moist_wet", "wake_period"}

\* C18: once the once-a-day block has executed, each of the three tunables is
\* reconciled: a remote value that exists is the value the local store holds
\* (remote wins), and a path that was absent holds the local value; either way
\* the local store and the RTDB agree on every tunable.
C18_TunablesReconciled ==
    (dailyRan /\ pc \in {"disconnect", "schedule", "asleep"})
    => \A t \in Tunables :
          /\ remoteCfg[t] # Absent
          /\ localCfg[t] = remoteCfg[t]

\* a wake that the timer did not cause has not run any part of the cycle
CycleNotRun ==
    /\ pc \in {"boot", "asleep"}
    /\ firstReading = -1
    /\ ~pumpWasOn
    /\ gpio[pumpPin] = LOW
    /\ wifiTried = "none"
    /\ signIns = 0
    /\ pushed = NoPush
    /\ scheduled = "none"

\* C19 as stated: on a wake that the timer did not cause and that is not the
\* first boot after flashing, the device goes back to sleep without running the
\* cycle
C19_UnexpectedWakeSleepsAtOnce ==
    (wakeup_reason # "timer" /\ ~firstBoot) => CycleNotRun

\* C19 amended: in a build without DEBUG_LOG every wake that the timer did not
\* cause, the first boot after flashing included, goes back to sleep for
\* TIME_TO_SLEEP without sensor read, pump actuation or network activity; in a
\* build with DEBUG_LOG every suspension comes out of the sleep scheduling of a
\* full cycle.
C19_UnexpectedWakeRelease ==
    /\ (wakeup_reason # "timer" /\ ~DEBUG_LOG) =>
          /\ CycleNotRun
          /\ (pc = "asleep" => sleepTimer = TIME_TO_SLEEP)
    /\ (DEBUG_LOG /\ pc = "asleep") => (scheduled = "debug" /\ firstReading # -1)

\* C19 witness: the first boot after flashing of the release build is asleep for
\* TIME_TO_SLEEP and has read no sensor
C19_Witness ==
    /\ pc = "asleep"
    /\ ~DEBUG_LOG
    /\ wakeup_reason = "undefined"
    /\ firstBoot
    /\ firstReading = -1
    /\ sleepTimer = TIME_TO_SLEEP

\* C20: when the device suspends or restarts, the preferences handle that the
\* cycle opened has been closed
C20_PrefsClosedAtCycleEnd ==
    pc \in CycleEnd => ~prefsOpen

\* C21: the pump loop polls once per counted second with the pump on, and stops
\* at the first poll that reads a value <= ADC_WET_VALUE: when that is poll k
\* with k < PUMP_ON_SECONDS_MAX the loop is left with pumpOnSeconds = k, and the
\* record pushed in that cycle carries pump_on_seconds = k and the reading of
\* poll k, not the first reading of the cycle.
C21_WetOnKthPoll ==
    /\ [](pumpOnSeconds = pumpPolls)
    /\ [](pc = "pump_loop" => gpio[pumpPin] = HIGH)
    /\ [][ (pc = "pump_loop" /\ moistureValue <= ADC_WET_VALUE)
            => (pc' = "sensor_off" /\ pumpPolls' = pumpPolls /\ gpio'[pumpPin] = LOW) ]_vars
    /\ []((pumpWasOn /\ pc # "pump_loop" /\ pumpPolls < PUMP_ON_SECONDS_MAX)
            => (pumpPolls >= 1 /\ moistureValue <= ADC_WET_VALUE))
    /\ [](pushed.st # "none" =>
            /\ pushed.pump_on_seconds = pumpPolls
            /\ pushed.moisture = moistureValue)

\* C21 witness: the first reading was dry, the 12th poll read ADC_WET_VALUE, and
\* the pushed record carries 12 seconds and that reading
C21_Witness ==
    /\ pc = "asleep"
    /\ firstReading = ADC_DRY_VALUE + 1
    /\ pumpPolls = 12
    /\ pumpOnSeconds = 12
    /\ moistureValue = ADC_WET_VALUE
    /\ pushed = [st |-> "ok", moisture |-> ADC_WET_VALUE, pump_on_seconds |-> 12]

\* C22: inside a cycle previousDay is written by one step only, the entry of the
\* once-a-day block, which sets it to the day of month of timeinfo; a timer wake
\* keeps it; so a cycle that does not enter the block suspends with the value it
\* woke with, and a cycle that entered the block holds the current day of month.
C22_PreviousDayFrame ==
    /\ [][ (previousDay' # previousDay) =>
              \/ ( /\ pc = "daily"
                   /\ ~dailyRan
                   /\ dailyRan'
                   /\ previousDay' = timeinfo.tm_mday )
              \/ (pc \in CycleEnd /\ pc' = "boot" /\ wakeup_reason' = "undefined") ]_vars
    /\ [][ (pc # "daily" /\ pc' \notin {"boot"}) => previousDay' = previousDay ]_vars
    /\ [][ (pc = "asleep" /\ wakeup_reason' = "timer") => previousDay' = previousDay ]_vars
    /\ []((dailyRan /\ pc # "daily") => previousDay = timeinfo.tm_mday)

\* C22 witness: a cycle that entered the block on day 2 is asleep with
\* previousDay = 2
C22_Witness ==
    /\ pc = "asleep"
    /\ dailyRan
    /\ syncOk
    /\ timeinfo.tm_mday = 2
    /\ previousDay = 2
    /\ versionOp # "none"

\* C23: a cycle that signed in has, once its remote steps are over, handled the
\* "update" value of the RTDB: a value that was true at the wake has been set
\* back to false (nothing but the device clears it, so a value that is true
\* behind the remote steps was true at the wake and was not handled).
C23_UpdateFlagHandled ==
    (fbReady /\ pc \in {"disconnect", "schedule", "asleep"}) => ~remoteCfg.update

\* C24: the remote steps of a cycle are ordered: the once-a-day block and the OTA
\* check are reached only after the push was attempted, the version path is
\* accessed only after the OTA check was called, and a restart out of the OTA
\* check happens only after the push attempt and before any version access.
C24_RemoteStepsOrdered ==
    /\ (pc = "daily" \/ dailyRan) => pushed.st # "none"
    /\ pc = "ota" => (pushed.st # "none" /\ ~otaCalled /\ versionOp = "none")
    /\ otaCalled => pushed.st # "none"
    /\ pc = "version" => (otaCalled /\ versionOp = "none")
    /\ versionOp # "none" => (otaCalled /\ pushed.st # "none")
    /\ pc = "restart" => (otaCalled /\ pushed.st # "none" /\ versionOp = "none")

\* C24 witness: the push was attempted and failed, then the OTA check flashed
\* the new image and the device restarts
C24_Witness ==
    /\ pc = "restart"
    /\ pushed.st = "failed"
    /\ otaCalled
    /\ versionOp = "none"

\* positions of setup() behind the day test of line 250
AfterDayTest == {"ota", "version", "disconnect", "schedule", "asleep", "restart"}

\* C25: a cycle that connected, synced the time, signed in and passed the day
\* test leaves behind a day whose once-a-day block has run: when no earlier
\* cycle of that date entered the block, this cycle did.
C25_DailyRetriedSameDay ==
    ( /\ pc \in AfterDayTest
      /\ wifiTried = "connected"
      /\ syncOk
      /\ fbReady )
    => ranToday

\* C26: whatever the outcome of the push, setup() goes on to the day test; the
\* test enters the once-a-day block exactly when the day of timeinfo differs
\* from previousDay, without looking at the push; after a failed push
\* updateSuccess stays false, and a block entered after a failed push has called
\* the OTA check and accessed the version path before the network is released.
C26_PushFailureKeepsDaily ==
    /\ [][ pc = "telemetry" => (pc' = "daily" /\ pushed'.st \in {"ok", "failed"}) ]_vars
    /\ [][ pc = "daily" =>
              IF timeinfo.tm_mday # previousDay
                THEN pc' = "ota" /\ dailyRan' /\ previousDay' = timeinfo.tm_mday
                ELSE pc' = "disconnect" /\ ~dailyRan' ]_vars
    /\ [](pushed.st = "failed" => ~updateSuccess)
    /\ []((pushed.st = "failed" /\ dailyRan /\ pc \in {"disconnect", "schedule", "asleep"})
            => (otaCalled /\ versionOp # "none"))

\* C26 witness: the push failed, the block ran with the OTA check and the
\* version access, and the device is asleep with updateSuccess false
C26_Witness ==
    /\ pc = "asleep"
    /\ pushed.st = "failed"
    /\ ~updateSuccess
    /\ dailyRan
    /\ otaCalled
    /\ versionOp # "none"

\* C27 as stated: for every rtc_valid, hour, minute and updateSuccess the sleep
\* duration handed to enterDeepSleep by the scheduling lies between 60 and 39600
\* seconds
C27_SleepBoundedAnyBuild ==
    (pc = "asleep" /\ scheduled # "none") =>
        /\ timeToSleepSecs \in 60 .. 39600
        /\ sleepTimer = timeToSleepSecs

\* C27 amended: in a build without DEBUG_LOG the duration lies between 60 and
\* 39600 seconds for every rtc_valid, hour, minute and updateSuccess; in a build
\* with DEBUG_LOG it is the fixed DEBUG_SLEEP_SECS; in both builds the value
\* handed to the timer is strictly positive.
C27_SleepBoundedRelease ==
    (pc = "asleep" /\ scheduled # "none") =>
        /\ sleepTimer = timeToSleepSecs
        /\ sleepTimer > 0
        /\ ~DEBUG_LOG => timeToSleepSecs \in 60 .. 39600
        /\ DEBUG_LOG => timeToSleepSecs = DEBUG_SLEEP_SECS

\* C27 witness: 07:59 with a valid time gives the shortest quiet-hours sleep,
\* 60 seconds
C27_Witness ==
    /\ pc = "asleep"
    /\ ~DEBUG_LOG
    /\ rtc_valid
    /\ sleepHour = 7
    /\ sleepMinute = 59
    /\ scheduled = "morning"
    /\ sleepTimer = 60

\* C28: updateSuccess is true exactly when this cycle's push was attempted and
\* acknowledged; the push record is written once in a cycle, at the push; the
\* OTA check and the version access change neither; so at the sleep scheduling
\* updateSuccess tells the outcome of the push and nothing else.
C28_UpdateSuccessIsPush ==
    /\ [](updateSuccess <=> pushed.st = "ok")
    /\ [][ (pushed' # pushed) =>
              \/ (pc = "telemetry" /\ pushed = NoPush /\ pushed'.st \in {"ok", "failed"})
              \/ (pc' = "boot" /\ pushed' = NoPush) ]_vars
    /\ [][ (updateSuccess' # updateSuccess) =>
              \/ (pc = "telemetry" /\ pushed'.st = "ok")
              \/ (pc' = "boot" /\ ~updateSuccess') ]_vars
    /\ [][ (pc \in {"daily", "ota", "version", "disconnect"}) =>
              (updateSuccess' = updateSuccess /\ pushed' = pushed) ]_vars

\* C28 witness: the push failed, the OTA check returned and the version string
\* was written; the device sleeps the retry time with updateSuccess false
C28_Witness ==
    /\ pc = "asleep"
    /\ ~DEBUG_LOG
    /\ pushed.st = "failed"
    /\ ~updateSuccess
    /\ otaCalled
    /\ versionOp = "written"
    /\ scheduled = "retry"

\* C29: the OTA check is called only on the step behind a day test that found
\* the day of timeinfo different from previousDay and stored it; a check that
\* failed leaves previousDay at that day; previousDay is kept by the deep sleep
\* and changes only at a later block entry or by a reset; and a day test that
\* finds the stored day again leaves the block out. So after a failed check no
\* cycle calls the OTA check while its day of month is the stored one.
C29_NoOtaRetrySameDay ==
    /\ [][ (pc' = "ota") =>
              (pc = "daily" /\ timeinfo.tm_mday # previousDay
                /\ previousDay' = timeinfo.tm_mday) ]_vars
    /\ [][ (otaCalled' /\ ~otaCalled) => (pc = "ota" /\ previousDay = timeinfo.tm_mday) ]_vars
    /\ []((otaCalled /\ pc # "boot") => previousDay = timeinfo.tm_mday)
    /\ [](otaExit \in OtaFailures => (pc = "version" /\ previousDay = timeinfo.tm_mday))
    /\ [][ (pc = "daily" /\ timeinfo.tm_mday = previousDay) =>
              (pc' = "disconnect" /\ ~otaCalled' /\ previousDay' = previousDay) ]_vars
    /\ [](pc \in AfterDayTest /\ ~dailyRan => ~otaCalled)
    /\ [][ (pc = "asleep" /\ wakeup_reason' = "timer") =>
              (previousDay' = previousDay /\ timeinfo' = timeinfo) ]_vars
    /\ [][ (previousDay' = 0 /\ previousDay # 0) =>
              (pc \in CycleEnd /\ wakeup_reason' = "undefined") ]_vars

\* C29 witness: the day changed since the block last ran, the block was entered
\* again, and Update.end() failed with previousDay already at the new day
C29_Witness ==
    /\ pc = "version"
    /\ otaExit = "end_failed"
    /\ wakeup_reason = "timer"
    /\ lastCycle.day # 0
    /\ lastCycle.day # timeinfo.tm_mday
    /\ previousDay = timeinfo.tm_mday

\* C30: ADC_DRY_VALUE is above ADC_WET_VALUE, so a reading that switched the
\* pump on also passes the first test of the loop condition: once the pump is off
\* again pumpOnSeconds >= 1, and at the push pumpOnSeconds (and the pushed
\* pump_on_seconds) is 0 exactly when the pump was not switched on in the cycle.
C30_PumpOnMeansCounted ==
    /\ ADC_DRY_VALUE > ADC_WET_VALUE
    /\ (pumpWasOn /\ pc # "pump_loop") => pumpOnSeconds >= 1
    /\ (pc = "telemetry") => ((pumpOnSeconds = 0) <=> ~pumpWasOn)
    /\ (pushed.st # "none") => ((pushed.pump_on_seconds = 0) <=> ~pumpWasOn)

\* C30 witness: the first poll already read wet; one second was counted and pushed
C30_Witness ==
    /\ pc = "asleep"
    /\ pumpWasOn
    /\ pumpOnSeconds = 1
    /\ pushed.st # "none"
    /\ pushed.pump_on_seconds = 1

\* C31: in the once-a-day block the current version string is written to the
\* device's version path exactly when the read of the path failed or returned
\* another string; a path that holds the current version is left alone; the
\* path is accessed only after check_firmware_update returned, so a cycle whose
\* update succeeded restarts without reading or writing it.
C31_VersionWrittenOnlyOnMismatch ==
    /\ (pc = "disconnect" /\ dailyRan) =>
          /\ versionRead \in {"failed", "same", "other"}
          /\ (versionOp = "written") <=> (versionRead \in {"failed", "other"})
          /\ (versionOp = "kept") <=> (versionRead = "same")
    /\ (versionOp # "none" \/ versionRead # "none") => (dailyRan /\ otaCalled)
    /\ (pc = "restart" \/ otaExit = "restart") =>
          (versionOp = "none" /\ versionRead = "none")

\* C31 witness: the OTA check returned, the path held the current version and
\* nothing was written
C31_Witness ==
    /\ pc = "disconnect"
    /\ dailyRan
    /\ otaCalled
    /\ versionRead = "same"
    /\ versionOp = "kept"

====
